---- MODULE Spec2Model ----
(***************************************************************************)
(* A model of turkish_tokenizer.py: the scanner of tokenize, the case      *)
(* splitter, the root / suffix matchers, remainder resolution and the BPE  *)
(* fallback encoder.                                                       *)
(*                                                                         *)
(* Strings are sequences of Unicode code points (97 = 'a', 65 = 'A',       *)
(* 199 = 'Ç', 231 = 'ç', 32 = ' ', 10 = '\n', 9 = '\t', 46 = '.',          *)
(* 35 = '#'), restricted to Latin-1, where str.lower is +32 on the         *)
(* uppercase letters.  Indices into strings are 0-based as in the source;  *)
(* the Python slice s[a:b] is Slice(s, a, b).                              *)
(***************************************************************************)
EXTENDS Integers, Sequences, FiniteSets, TLC

VARIABLES
    text,        \* the argument of tokenize
    roots,       \* kokler table: key -> id
    suffixes,    \* ekler table: key -> id
    bpe_tokens,  \* bpe table: key -> id
    tokens,      \* tokenize's tokens list
    ids,         \* tokenize's ids list
    i,           \* tokenize's scanner index
    pc,          \* the statement control stands at
    word_start,  \* tokenize's word_start
    word,        \* tokenize's word: the atomic span just collected
    parts,       \* the parts of re.split not yet visited by the for loop
    remainder,   \* the string argument of the running process_* call
    bpe_i,       \* process_bpe's cursor i
    found_any,   \* process_bpe's found_any
    depth,       \* number of process_remainder frames on the call stack
    pos,         \* index in text of remainder[0]
    origin,      \* per emitted token, the index in text of its first character
    span_tok,    \* len(tokens) when the current atomic span was collected
    skipped      \* process_bpe took its no-match skip inside the current span

vars == <<text, roots, suffixes, bpe_tokens, tokens, ids, i, pc, word_start,
          word, parts, remainder, bpe_i, found_any, depth, pos, origin,
          span_tok, skipped>>

tables == <<text, roots, suffixes, bpe_tokens>>

\* ------------------------------------------------------------------------
\* Bounds

\* longest input text of the exhaustive specification
MaxLen == 4

\* number of one-character suffixes after the root in the deep-recursion input
DeepLen == 1000

\* ------------------------------------------------------------------------
\* Strings and characters

\* s[a:b]
Slice(s, a, b) == SubSeq(s, a + 1, b)

\* the characters input texts are drawn from
Alphabet == {97, 98, 65, 199, 32, 10, 9, 46, 35}

\* str.isupper for one character
isupper(c) == c \in 65..90 \/ c \in 192..214 \/ c \in 216..222

\* str.isalnum for one character
isalnum(c) ==
    \/ c \in 48..57
    \/ c \in 65..90
    \/ c \in 97..122
    \/ c \in {170, 178, 179, 181, 185, 186, 188, 189, 190}
    \/ c \in 192..214
    \/ c \in 216..246
    \/ c \in 248..255

\* char in '.,!?;'
ispunct(c) == c \in {46, 44, 33, 63, 59}

\* the character class [A-Z] of the regular expression
isAZ(c) == c \in 65..90

\* str.lower
lower(s) == [k \in 1..Len(s) |-> IF isupper(s[k]) THEN s[k] + 32 ELSE s[k]]

\* any(c.isupper() for c in word)
any_upper(s) == \E k \in 1..Len(s) : isupper(s[k])

\* token texts of the special tokens
TokUppercase == <<60, 117, 112, 112, 101, 114, 99, 97, 115, 101, 62>>
TokSpace == <<60, 115, 112, 97, 99, 101, 62>>
TokNewline == <<60, 110, 101, 119, 108, 105, 110, 101, 62>>
TokTab == <<60, 116, 97, 98, 62>>
TokUnknown == <<60, 117, 110, 107, 110, 111, 119, 110, 62>>

SPECIAL_TOKENS ==
    (TokSpace :> 1) @@ (TokNewline :> 2) @@ (TokTab :> 3) @@
    (TokUnknown :> 4) @@ (TokUppercase :> 0)

\* ------------------------------------------------------------------------
\* Vocabularies (the three JSON tables are data outside the source; these
\* are small tables with the same shape: nested root keys, a one-character
\* root key, suffix keys that are prefixes of one another, an id shared with
\* a special token as 'bir' = 1 is in the documented output, punctuation as
\* a BPE key as ',' is there, an empty table)

Vocabulary1 ==
    [roots |-> (<<97, 98>> :> 1),
     suffixes |-> (<<97>> :> 20) @@ (<<97, 98>> :> 21) @@ (<<98>> :> 22),
     bpe_tokens |-> (<<97>> :> 30) @@ (<<98>> :> 31) @@ (<<231>> :> 32) @@
                    (<<46>> :> 33)]

Vocabulary2 ==
    [roots |-> (<<97, 98>> :> 10) @@ (<<97, 98, 97>> :> 11) @@ (<<97>> :> 12),
     suffixes |-> (<<98>> :> 22),
     bpe_tokens |-> (<<98>> :> 31) @@ (<<98, 98>> :> 34)]

Vocabulary3 ==
    [roots |-> (<<97, 98>> :> 10) @@ (<<98, 97>> :> 13),
     suffixes |-> (<<97>> :> 20),
     bpe_tokens |-> <<>>]

Vocabularies == {Vocabulary1, Vocabulary2, Vocabulary3}

\* ------------------------------------------------------------------------
\* Matchers (pure functions of the word and the tables)

\* the first candidate a descending range(hi, lo, -1) visits among those
\* of S, i.e. where a for loop over that range returns at its first hit
first_down(S) == CHOOSE n \in S : \A m \in S : m <= n

\* the first candidate an ascending range visits among those of S
first_up(S) == CHOOSE n \in S : \A m \in S : n <= m

\* match_root with the tail sliced one character late (word[i + 1:])
match_root_drops_char(w) ==
    LET hits == {n \in 2..Len(w) : Slice(w, 0, n) \in DOMAIN roots}
    IN  IF hits = {}
        THEN [root |-> <<>>, root_id |-> -1, remainder |-> w]
        ELSE [root |-> Slice(w, 0, first_down(hits)),
              root_id |-> roots[Slice(w, 0, first_down(hits))],
              remainder |-> Slice(w, first_down(hits) + 1, Len(w))]

\* match_root with the loop run down to length 1 (range(len(word), 0, -1))
match_root_min1(w) ==
    LET hits == {n \in 1..Len(w) : Slice(w, 0, n) \in DOMAIN roots}
    IN  IF hits = {}
        THEN [root |-> <<>>, root_id |-> -1, remainder |-> w]
        ELSE [root |-> Slice(w, 0, first_down(hits)),
              root_id |-> roots[Slice(w, 0, first_down(hits))],
              remainder |-> Slice(w, first_down(hits), Len(w))]

\* match_root: (root, root_id, remainder) for the first length in
\* range(len(word), 1, -1) whose prefix is a root key; no match (None,
\* None, word) is root = <<>>, id = -1
match_root(w) ==
    LET hits == {n \in 2..Len(w) : Slice(w, 0, n) \in DOMAIN roots}
    IN  IF hits = {}
        THEN [root |-> <<>>, root_id |-> -1, remainder |-> w]
        ELSE [root |-> Slice(w, 0, first_down(hits)),
              root_id |-> roots[Slice(w, 0, first_down(hits))],
              remainder |-> Slice(w, first_down(hits), Len(w))]

\* match_suffix with the id looked up under the shortest matching prefix
match_suffix_other_id(w) ==
    LET hits == {n \in 1..Len(w) : Slice(w, 0, n) \in DOMAIN suffixes}
    IN  IF hits = {}
        THEN [suffix |-> <<>>, suffix_id |-> -1]
        ELSE [suffix |-> Slice(w, 0, first_down(hits)),
              suffix_id |-> suffixes[Slice(w, 0, first_up(hits))]]

\* match_suffix with the loop bound of match_root (range(len(word), 1, -1))
match_suffix_min2(w) ==
    LET hits == {n \in 2..Len(w) : Slice(w, 0, n) \in DOMAIN suffixes}
    IN  IF hits = {}
        THEN [suffix |-> <<>>, suffix_id |-> -1]
        ELSE [suffix |-> Slice(w, 0, first_down(hits)),
              suffix_id |-> suffixes[Slice(w, 0, first_down(hits))]]

\* match_suffix: (suffix, suffix_id) for the first length in
\* range(len(word), 0, -1) whose prefix is a suffix key; no match (None,
\* None) is suffix = <<>>, id = -1
match_suffix(w) ==
    LET hits == {n \in 1..Len(w) : Slice(w, 0, n) \in DOMAIN suffixes}
    IN  IF hits = {}
        THEN [suffix |-> <<>>, suffix_id |-> -1]
        ELSE [suffix |-> Slice(w, 0, first_down(hits)),
              suffix_id |-> suffixes[Slice(w, 0, first_down(hits))]]

\* the inner for loop run upwards (range(k + 1, len(word) + 1)): the shortest
\* fragment
bpe_shortest(w, k) ==
    LET hits == {j \in (k + 1)..Len(w) : Slice(w, k, j) \in DOMAIN bpe_tokens}
    IN  IF hits = {} THEN -1 ELSE first_up(hits)

\* the inner for loop of process_bpe at cursor k: the first end j in
\* range(len(word), k, -1) with word[k:j] a BPE key, or -1 when it finds none
bpe_longest(w, k) ==
    LET hits == {j \in (k + 1)..Len(w) : Slice(w, k, j) \in DOMAIN bpe_tokens}
    IN  IF hits = {} THEN -1 ELSE first_down(hits)

\* ------------------------------------------------------------------------
\* Scanner and case splitter helpers

\* char.isalnum() or char in '.,!?;'
is_word_char(c) == isalnum(c) \/ ispunct(c)

\* the inner while loop of tokenize: the index where the span from k stops,
\* the first e >= k that is len(text) or holds no word character
span_end(t, k) ==
    CHOOSE e \in k..Len(t) :
        /\ \A m \in k..(e - 1) : is_word_char(t[m + 1])
        /\ e = Len(t) \/ ~is_word_char(t[e + 1])

RECURSIVE next_AZ(_, _)
\* leftmost index >= k of a character in [A-Z], or len(w)
next_AZ(w, k) ==
    IF k < Len(w) /\ ~isAZ(w[k + 1]) THEN next_AZ(w, k + 1) ELSE k

RECURSIVE re_split_from(_, _)
\* re.split(r'([A-Z][^A-Z]*)', w) from position p on
re_split_from(w, p) ==
    LET m == next_AZ(w, p)
    IN  IF m = Len(w)
        THEN <<Slice(w, p, Len(w))>>
        ELSE LET e == next_AZ(w, m + 1)
             IN  <<Slice(w, p, m), Slice(w, m, e)>> \o re_split_from(w, e)

\* re.split(r'([A-Z][^A-Z]*)', word): the text before each match, then the
\* captured match, and the text after the last match (empty strings kept)
re_split(w) == re_split_from(w, 0)

RECURSIVE concat(_)
\* ''.join(ss)
concat(ss) == IF ss = <<>> THEN <<>> ELSE Head(ss) \o concat(Tail(ss))

\* index in text of the first character of the next part of the for loop
part_pos == word_start + Len(word) - Len(concat(parts))

\* ------------------------------------------------------------------------
\* The call stack

\* CPython's default recursion limit (sys.getrecursionlimit()), which the
\* recursion of process_remainder runs against
RecursionLimit == 1000

\* frames on the stack while process_remainder runs: the module, tokenize,
\* process_word and one frame per nested process_remainder call
CallDepth == 3 + depth

\* ------------------------------------------------------------------------
\* Initial states

\* every text of at most MaxLen characters
Texts == UNION {[1..n -> Alphabet] : n \in 0..MaxLen}

\* a root, then DeepLen one-character suffixes
DeepText == <<97, 98>> \o [k \in 1..DeepLen |-> 97]

\* the state at the call of tokenize(t) with the tables of v loaded
Start(t, v) ==
    /\ text = t
    /\ roots = v.roots
    /\ suffixes = v.suffixes
    /\ bpe_tokens = v.bpe_tokens
    /\ tokens = <<>>
    /\ ids = <<>>
    /\ i = 0
    /\ pc = "scan"
    /\ word_start = 0
    /\ word = <<>>
    /\ parts = <<>>
    /\ remainder = <<>>
    /\ bpe_i = 0
    /\ found_any = FALSE
    /\ depth = 0
    /\ pos = 0
    /\ origin = <<>>
    /\ span_tok = 0
    /\ skipped = FALSE

Init == \E t \in Texts, v \in Vocabularies : Start(t, v)

InitDeep == Start(DeepText, Vocabulary1)

\* ------------------------------------------------------------------------
\* Token emitter

\* tokens.append(tok); ids.append(id), for a token that starts at text[at]
Emit(tok, id, at) ==
    /\ tokens' = Append(tokens, tok)
    /\ ids' = Append(ids, id)
    /\ origin' = Append(origin, at)

NoEmit == UNCHANGED <<tokens, ids, origin>>

\* where control goes when process_word returns to tokenize: the next part
\* of the for loop, or the i += 1 that ends the outer iteration
AfterWord == IF parts = <<>> THEN "incr" ELSE "for_part"

\* ------------------------------------------------------------------------
\* tokenize: the scanner

\* one whitespace branch of the outer loop together with its i += 1
ScanWhite(c, tok) ==
    /\ pc = "scan"
    /\ i < Len(text)
    /\ text[i + 1] = c
    /\ Emit(tok, SPECIAL_TOKENS[tok], i)
    /\ i' = i + 1
    /\ UNCHANGED <<tables, pc, word_start, word, parts, remainder, bpe_i,
                   found_any, depth, pos, span_tok, skipped>>

ScanSpace == pc = "scan" /\ ScanWhite(32, TokSpace)

ScanNewline == pc = "scan" /\ ScanWhite(10, TokNewline)

\* the tab branch with the token of the newline branch
ScanTab_as_newline == ScanWhite(9, TokNewline)

ScanTab == pc = "scan" /\ ScanWhite(9, TokTab)

\* collect the atomic span that starts at i
ScanWord ==
    /\ pc = "scan"
    /\ i < Len(text)
    /\ is_word_char(text[i + 1])
    /\ word_start' = i
    /\ word' = Slice(text, i, span_end(text, i))
    /\ i' = span_end(text, i) - 1
    /\ span_tok' = Len(tokens)
    /\ skipped' = FALSE
    /\ pc' = "case"
    /\ NoEmit
    /\ UNCHANGED <<tables, parts, remainder, bpe_i, found_any, depth, pos>>

\* any other character: no branch is taken, only i += 1
ScanSkip ==
    /\ pc = "scan"
    /\ i < Len(text)
    /\ text[i + 1] \notin {32, 10, 9}
    /\ ~is_word_char(text[i + 1])
    /\ i' = i + 1
    /\ NoEmit
    /\ UNCHANGED <<tables, pc, word_start, word, parts, remainder, bpe_i,
                   found_any, depth, pos, span_tok, skipped>>

\* the i += 1 that ends the outer iteration of a span
Incr ==
    /\ pc = "incr"
    /\ i' = i + 1
    /\ pc' = "scan"
    /\ NoEmit
    /\ UNCHANGED <<tables, word_start, word, parts, remainder, bpe_i,
                   found_any, depth, pos, span_tok, skipped>>

\* the outer loop ends: return {"tokens": tokens, "ids": ids}
Return ==
    /\ pc = "scan"
    /\ i >= Len(text)
    /\ pc' = "done"
    /\ NoEmit
    /\ UNCHANGED <<tables, i, word_start, word, parts, remainder, bpe_i,
                   found_any, depth, pos, span_tok, skipped>>

\* ------------------------------------------------------------------------
\* tokenize: the case splitter

\* the call process_word(w) for the piece that starts at text[at]
CallProcessWord(w, at) ==
    /\ remainder' = w
    /\ pos' = at
    /\ depth' = 0
    /\ pc' = "process_word"

\* the span holds an uppercase letter: split it
CaseUpper ==
    /\ pc = "case"
    /\ any_upper(word)
    /\ parts' = re_split(word)
    /\ pc' = "for_part"
    /\ NoEmit
    /\ UNCHANGED <<tables, i, word_start, word, remainder, bpe_i, found_any,
                   depth, pos, span_tok, skipped>>

\* no uppercase letter: process_word(word)
CaseLower ==
    /\ pc = "case"
    /\ ~any_upper(word)
    /\ CallProcessWord(word, word_start)
    /\ NoEmit
    /\ UNCHANGED <<tables, i, word_start, word, parts, bpe_i, found_any,
                   span_tok, skipped>>

\* an empty part is passed over
PartEmpty ==
    /\ pc = "for_part"
    /\ Head(parts) = <<>>
    /\ parts' = Tail(parts)
    /\ pc' = IF Tail(parts) = <<>> THEN "incr" ELSE "for_part"
    /\ NoEmit
    /\ UNCHANGED <<tables, i, word_start, word, remainder, bpe_i, found_any,
                   depth, pos, span_tok, skipped>>

\* a part whose first character is uppercase: <uppercase>, then the part
\* lower-cased
PartUpper ==
    /\ pc = "for_part"
    /\ Head(parts) # <<>>
    /\ isupper(Head(parts)[1])
    /\ Emit(TokUppercase, SPECIAL_TOKENS[TokUppercase], part_pos)
    /\ CallProcessWord(lower(Head(parts)), part_pos)
    /\ parts' = Tail(parts)
    /\ UNCHANGED <<tables, i, word_start, word, bpe_i, found_any, span_tok,
                   skipped>>

\* any other part goes to process_word as it is
PartLower ==
    /\ pc = "for_part"
    /\ Head(parts) # <<>>
    /\ ~isupper(Head(parts)[1])
    /\ CallProcessWord(Head(parts), part_pos)
    /\ parts' = Tail(parts)
    /\ NoEmit
    /\ UNCHANGED <<tables, i, word_start, word, bpe_i, found_any, span_tok,
                   skipped>>

\* ------------------------------------------------------------------------
\* process_word

\* a root matches: emit it, then resolve the remainder if there is one
ProcessWordRoot ==
    /\ pc = "process_word"
    /\ LET m == match_root(remainder)
       IN  /\ m.root # <<>>
           /\ Emit(m.root, m.root_id, pos)
           /\ remainder' = m.remainder
           /\ pos' = pos + Len(m.root)
           /\ IF m.remainder # <<>>
              THEN pc' = "process_remainder" /\ depth' = 1
              ELSE pc' = AfterWord /\ depth' = 0
    /\ UNCHANGED <<tables, i, word_start, word, parts, bpe_i, found_any,
                   span_tok, skipped>>

\* the call process_bpe(w): the cursor at 0, nothing found yet
CallProcessBpe ==
    /\ pc' = "process_bpe"
    /\ bpe_i' = 0
    /\ found_any' = FALSE

\* no root matches: process_bpe(word)
ProcessWordBpe ==
    /\ pc = "process_word"
    /\ match_root(remainder).root = <<>>
    /\ CallProcessBpe
    /\ NoEmit
    /\ UNCHANGED <<tables, i, word_start, word, parts, remainder, depth, pos,
                   span_tok, skipped>>

\* ------------------------------------------------------------------------
\* process_remainder

\* after a suffix or root of length n is emitted: recurse on what is left,
\* or return through every frame to tokenize
Recurse(rest, n) ==
    /\ remainder' = rest
    /\ pos' = pos + n
    /\ IF rest # <<>>
       THEN pc' = "process_remainder" /\ depth' = depth + 1
       ELSE pc' = AfterWord /\ depth' = 0

\* the call this frame makes (match_suffix, one frame more) stays under the
\* recursion limit
StackFits == CallDepth + 1 < RecursionLimit

\* step 1: a suffix matches
ProcessRemainderSuffix ==
    /\ pc = "process_remainder"
    /\ StackFits
    /\ LET m == match_suffix(remainder)
       IN  /\ m.suffix # <<>>
           /\ Emit(m.suffix, m.suffix_id, pos)
           /\ Recurse(Slice(remainder, Len(m.suffix), Len(remainder)),
                      Len(m.suffix))
    /\ UNCHANGED <<tables, i, word_start, word, parts, bpe_i, found_any,
                   span_tok, skipped>>

\* step 2: no suffix matches and a root does
ProcessRemainderRoot ==
    /\ pc = "process_remainder"
    /\ StackFits
    /\ match_suffix(remainder).suffix = <<>>
    /\ LET m == match_root(remainder)
       IN  /\ m.root # <<>>
           /\ Emit(m.root, m.root_id, pos)
           /\ Recurse(m.remainder, Len(m.root))
    /\ UNCHANGED <<tables, i, word_start, word, parts, bpe_i, found_any,
                   span_tok, skipped>>

\* step 3: neither matches: process_bpe(remainder)
ProcessRemainderBpe ==
    /\ pc = "process_remainder"
    /\ StackFits
    /\ match_suffix(remainder).suffix = <<>>
    /\ match_root(remainder).root = <<>>
    /\ CallProcessBpe
    /\ NoEmit
    /\ UNCHANGED <<tables, i, word_start, word, parts, remainder, depth, pos,
                   span_tok, skipped>>

\* the call of match_suffix would exceed the recursion limit: RecursionError
\* propagates out of tokenize
RecursionError ==
    /\ pc = "process_remainder"
    /\ ~StackFits
    /\ pc' = "RecursionError"
    /\ NoEmit
    /\ UNCHANGED <<tables, i, word_start, word, parts, remainder, bpe_i,
                   found_any, depth, pos, span_tok, skipped>>

\* ------------------------------------------------------------------------
\* process_bpe

\* one iteration of the while loop that finds a fragment
BpeMatch ==
    /\ pc = "process_bpe"
    /\ bpe_i < Len(remainder)
    /\ LET j == bpe_longest(remainder, bpe_i)
       IN  /\ j # -1
           /\ Emit(Slice(remainder, bpe_i, j),
                   bpe_tokens[Slice(remainder, bpe_i, j)], pos + bpe_i)
           /\ bpe_i' = j
           /\ found_any' = TRUE
    /\ UNCHANGED <<tables, i, pc, word_start, word, parts, remainder, depth,
                   pos, span_tok, skipped>>

\* one iteration of the while loop that finds nothing: i += 1
BpeSkip ==
    /\ pc = "process_bpe"
    /\ bpe_i < Len(remainder)
    /\ bpe_longest(remainder, bpe_i) = -1
    /\ bpe_i' = bpe_i + 1
    /\ skipped' = TRUE
    /\ NoEmit
    /\ UNCHANGED <<tables, i, pc, word_start, word, parts, remainder,
                   found_any, depth, pos, span_tok>>

\* process_bpe returns True: the caller emits nothing more
BpeFound ==
    /\ pc = "process_bpe"
    /\ bpe_i >= Len(remainder)
    /\ found_any
    /\ pc' = AfterWord
    /\ depth' = 0
    /\ NoEmit
    /\ UNCHANGED <<tables, i, word_start, word, parts, remainder, bpe_i,
                   found_any, pos, span_tok, skipped>>

\* the <unknown> branch with the id of another special token
BpeUnknown_other_id ==
    /\ pc = "process_bpe"
    /\ bpe_i >= Len(remainder)
    /\ ~found_any
    /\ Emit(TokUnknown, SPECIAL_TOKENS[TokUppercase], pos)
    /\ pc' = AfterWord
    /\ depth' = 0
    /\ UNCHANGED <<tables, i, word_start, word, parts, remainder, bpe_i,
                   found_any, pos, span_tok, skipped>>

\* process_bpe returns False: the caller emits <unknown>
BpeUnknown ==
    /\ pc = "process_bpe"
    /\ bpe_i >= Len(remainder)
    /\ ~found_any
    /\ Emit(TokUnknown, SPECIAL_TOKENS[TokUnknown], pos)
    /\ pc' = AfterWord
    /\ depth' = 0
    /\ UNCHANGED <<tables, i, word_start, word, parts, remainder, bpe_i,
                   found_any, pos, span_tok, skipped>>

\* ------------------------------------------------------------------------
\* Specifications

Next ==
    \/ ScanSpace
    \/ ScanNewline
    \/ ScanTab
    \/ ScanWord
    \/ ScanSkip
    \/ Incr
    \/ Return
    \/ CaseUpper
    \/ CaseLower
    \/ PartEmpty
    \/ PartUpper
    \/ PartLower
    \/ ProcessWordRoot
    \/ ProcessWordBpe
    \/ ProcessRemainderSuffix
    \/ ProcessRemainderRoot
    \/ ProcessRemainderBpe
    \/ BpeMatch
    \/ BpeSkip
    \/ BpeFound
    \/ BpeUnknown

\* every text of at most MaxLen characters, under each vocabulary
Spec == Init /\ [][Next]_vars

\* the steps tokenize takes on a root followed by DeepLen suffixes
NextDeep ==
    \/ ScanWord
    \/ CaseLower
    \/ ProcessWordRoot
    \/ ProcessRemainderSuffix
    \/ RecursionError

SpecDeep == InitDeep /\ [][NextDeep]_vars

\* ------------------------------------------------------------------------
\* Vocabulary for stating the properties

IsSpecial(tok) == tok \in DOMAIN SPECIAL_TOKENS

\* the tokens and ids emitted for the current atomic span so far
SpanTokens == SubSeq(tokens, span_tok + 1, Len(tokens))

SpanIds == SubSeq(ids, span_tok + 1, Len(ids))

NotSpecial(tok) == ~IsSpecial(tok)

\* the texts of the span's tokens other than special ones, concatenated
SpanText == concat(SelectSeq(SpanTokens, NotSpecial))

\* the characters of text a non-special token was made from
SourceOf(k) == Slice(text, origin[k], origin[k] + Len(tokens[k]))

\* number of positions of s that satisfy Test
Count(s, Test(_)) == Cardinality({k \in 1..Len(s) : Test(s[k])})

IsUppercaseToken(tok) == tok = TokUppercase

\* the span has been tokenized and control is back in the outer loop
SpanDone == pc = "incr"

\* the lengths n >= lo whose prefix of w is a key of table
PrefixKeys(w, table, lo) ==
    {n \in lo..Len(w) : Slice(w, 0, n) \in DOMAIN table}

\* ------------------------------------------------------------------------
\* C1  Uppercase invariant: every emitted token made from input characters
\* of which one is uppercase (str.isupper, ASCII or not) comes right after
\* an <uppercase> token, and no emitted token text holds an uppercase
\* character.  The code breaks it: 'AÇ' over bpe {a, ç} gives <uppercase>,
\* 'a', 'ç', and the 'ç' made from 'Ç' follows 'a'.
UppercaseInvariant ==
    \A k \in 1..Len(tokens) :
        /\ ~any_upper(tokens[k])
        /\ (NotSpecial(tokens[k]) /\ any_upper(SourceOf(k)))
              => (k > 1 /\ tokens[k - 1] = TokUppercase)

\* ------------------------------------------------------------------------
\* C2  Recursive consumption, as stated: when process_bpe never skipped
\* inside the span, the non-special token texts of the span concatenate to
\* exactly the span's characters.  Fails on any span with an uppercase
\* letter, whose tokens are lower-cased.
ConsumptionExact == (SpanDone /\ ~skipped) => SpanText = word

\* a part as the case splitter hands it to process_word
fold(part) ==
    IF part # <<>> /\ isupper(part[1]) THEN lower(part) ELSE part

RECURSIVE fold_parts(_)
fold_parts(ps) ==
    IF ps = <<>> THEN <<>> ELSE fold(Head(ps)) \o fold_parts(Tail(ps))

\* the span with every part that begins with an uppercase letter lower-cased
Folded(w) == IF any_upper(w) THEN fold_parts(re_split(w)) ELSE w

\* C2 amended: when process_bpe never skipped inside the span, the
\* non-special token texts of the span concatenate to the span's characters
\* with every part that begins with an uppercase letter lower-cased.
ConsumptionFolded == (SpanDone /\ ~skipped) => SpanText = Folded(word)

\* C2 witness: a span with an uppercase letter was consumed without a skip
\* into at least two vocabulary tokens
ConsumptionWitness ==
    /\ SpanDone
    /\ ~skipped
    /\ any_upper(word)
    /\ Len(SelectSeq(SpanTokens, NotSpecial)) >= 2

\* ------------------------------------------------------------------------
\* C3  As stated: a span without uppercase letters that is a key of none of
\* the three tables yields exactly one token, <unknown> with id 4.  Fails
\* when a proper prefix is a root or a substring is a BPE key.
UnknownWhenAbsent ==
    (/\ SpanDone
     /\ ~any_upper(word)
     /\ word \notin DOMAIN roots
     /\ word \notin DOMAIN suffixes
     /\ word \notin DOMAIN bpe_tokens)
        => (SpanTokens = <<TokUnknown>> /\ SpanIds = <<4>>)

\* no prefix of w of length >= 2 is a root key and no substring is a BPE key
Unmatchable(w) ==
    /\ PrefixKeys(w, roots, 2) = {}
    /\ \A a \in 0..(Len(w) - 1) : \A b \in (a + 1)..Len(w) :
          Slice(w, a, b) \notin DOMAIN bpe_tokens

\* C3 amended: a span without uppercase letters none of whose prefixes of
\* length >= 2 is a root key and none of whose substrings is a BPE key
\* yields exactly one token, <unknown> with id 4.
UnknownWhenUnmatchable ==
    (SpanDone /\ ~any_upper(word) /\ Unmatchable(word))
        => (SpanTokens = <<TokUnknown>> /\ SpanIds = <<4>>)

\* C3 witness: such a span of several characters, one of whose prefixes is
\* a suffix key, was tokenized
UnknownWitness ==
    /\ SpanDone
    /\ ~any_upper(word)
    /\ Unmatchable(word)
    /\ Len(word) >= 2
    /\ PrefixKeys(word, suffixes, 1) # {}

\* ------------------------------------------------------------------------
\* C4  Longest-match root: match_root returns the longest prefix of length
\* >= 2 that is a root key, with its id and the exact tail, and no match
\* when no prefix of length >= 2 is a key (a length-1 key never matches).
\* Stated of every string process_word and process_remainder hold, and at
\* the call of tokenize of every slice of the text, as it is and lower-cased.
RootMatchOf(w) ==
    LET m == match_root(w)
    IN  IF \E n \in 2..Len(w) : Slice(w, 0, n) \in DOMAIN roots
        THEN /\ Len(m.root) >= 2
             /\ m.root \in DOMAIN roots
             /\ m.root_id = roots[m.root]
             /\ m.root \o m.remainder = w
             /\ \A n \in (Len(m.root) + 1)..Len(w) :
                   Slice(w, 0, n) \notin DOMAIN roots
        ELSE m.root = <<>> /\ m.remainder = w

LongestRootMatch ==
    /\ RootMatchOf(remainder)
    /\ (pc = "scan" /\ i = 0) =>
          \A a \in 0..Len(text) : \A b \in a..Len(text) :
              /\ RootMatchOf(Slice(text, a, b))
              /\ RootMatchOf(lower(Slice(text, a, b)))

\* C4 witness: process_word took the longer of two roots that both match,
\* on a word whose one-character prefix is a root key too
LongestRootWitness ==
    /\ pc = "process_remainder"
    /\ depth = 1
    /\ \E n \in PrefixKeys(tokens[Len(tokens)], roots, 2) :
          n < Len(tokens[Len(tokens)])
    /\ PrefixKeys(tokens[Len(tokens)], roots, 1) # PrefixKeys(tokens[Len(tokens)], roots, 2)

\* ------------------------------------------------------------------------
\* C5  Whitespace-only input: on return the token and id sequences are as
\* long as the text, the k-th id is 1, 2 or 3 exactly when the k-th
\* character is space, newline or tab; the empty text gives empty sequences.
IsWhitespaceText == \A k \in 1..Len(text) : text[k] \in {32, 10, 9}

WhitespaceOnly ==
    (pc = "done" /\ IsWhitespaceText) =>
        /\ Len(tokens) = Len(text)
        /\ Len(ids) = Len(text)
        /\ \A k \in 1..Len(text) :
              /\ ids[k] \in {1, 2, 3}
              /\ ids[k] = 1 <=> text[k] = 32
              /\ ids[k] = 2 <=> text[k] = 10
              /\ ids[k] = 3 <=> text[k] = 9

\* C5 witness: tokenize returned on a text made of a space, a newline and a
\* tab
WhitespaceWitness ==
    /\ pc = "done"
    /\ IsWhitespaceText
    /\ {32, 10, 9} \subseteq {text[k] : k \in 1..Len(text)}

\* ------------------------------------------------------------------------
\* C6  Output pairing: tokens and ids always have the same length, every
\* pair (tokens[k], ids[k]) is an entry of the root, suffix, BPE or special
\* table, and the pairs come in the order of the input characters they were
\* made from.
InTable(tok, id, table) == tok \in DOMAIN table /\ table[tok] = id

NeverFails == pc # "RecursionError"

\* The rest of C7, which holds of every text of at most MaxLen characters:
\* remainder resolution shortens the remainder on every recursion, the BPE
\* cursor and the scanner index advance on every iteration, the recursion
\* is no deeper than the word is long, and tokenize returns.
ProgressStep ==
    /\ (pc = "process_remainder" /\ pc' = "process_remainder") =>
          Len(remainder') < Len(remainder)
    /\ (pc = "process_bpe" /\ pc' = "process_bpe") => bpe_i' > bpe_i
    /\ (pc \in {"scan", "incr"} /\ pc' = "scan") => i' > i
    /\ depth' <= Len(word')

Progress == [][ProgressStep]_vars

FairSpec == Spec /\ WF_vars(Next)

Terminates == <>(pc = "done")

\* ------------------------------------------------------------------------
\* C8  Case splitter: the span's <uppercase> tokens are as many as its
\* uppercase letters, and a piece handed to process_word was made from at
\* most one uppercase character, its first.  The code breaks it on uppercase
\* letters outside A-Z: 'aÇ' is one piece and gets no <uppercase>.
UppercasePerLetter ==
    /\ SpanDone => Count(SpanTokens, IsUppercaseToken) = Count(word, isupper)
    /\ pc = "process_word" =>
          ~any_upper(Slice(text, pos + 1, pos + Len(remainder)))

\* ------------------------------------------------------------------------
\* C9  Remainder resolution is the ordered cascade suffix, root, BPE,
\* unknown: a step of process_remainder emits the longest suffix-key prefix
\* if there is one (also when a root matches), else the longest root-key
\* prefix of length >= 2 if there is one, else emits nothing and enters
\* process_bpe; <unknown> is emitted only by a process_bpe call that emitted
\* nothing; process_word never emits a suffix for a word no root matches.
LongestPrefix(w, table, lo) ==
    Slice(w, 0, CHOOSE n \in PrefixKeys(w, table, lo) :
                    \A m \in PrefixKeys(w, table, lo) : m <= n)

Emitted(tok, id) == tokens' = Append(tokens, tok) /\ ids' = Append(ids, id)

CascadeStep ==
    /\ pc = "process_remainder" =>
          IF PrefixKeys(remainder, suffixes, 1) # {}
          THEN Emitted(LongestPrefix(remainder, suffixes, 1),
                       suffixes[LongestPrefix(remainder, suffixes, 1)])
          ELSE IF PrefixKeys(remainder, roots, 2) # {}
               THEN Emitted(LongestPrefix(remainder, roots, 2),
                            roots[LongestPrefix(remainder, roots, 2)])
               ELSE tokens' = tokens /\ ids' = ids /\ pc' = "process_bpe"
    /\ (pc # "process_bpe" /\ pc' = "process_bpe") =>
          /\ PrefixKeys(remainder, roots, 2) = {}
          /\ pc = "process_remainder" => PrefixKeys(remainder, suffixes, 1) = {}
    /\ (Len(tokens') > Len(tokens) /\ tokens'[Len(tokens')] = TokUnknown) =>
          /\ pc = "process_bpe"
          /\ bpe_i >= Len(remainder)
          /\ \A k \in 1..Len(tokens) : origin[k] >= pos => IsSpecial(tokens[k])
    /\ (pc = "process_word" /\ PrefixKeys(remainder, roots, 2) = {}) =>
          tokens' = tokens /\ pc' = "process_bpe"

Cascade == [][CascadeStep]_vars

\* C9 witness: root 'ab' was consumed from 'abab' and on the remainder 'ab',
\* which is a root key and a suffix key, the suffix was emitted
CascadeWitness ==
    /\ SpanDone
    /\ word = <<97, 98, 97, 98>>
    /\ <<97, 98>> \in DOMAIN roots
    /\ <<97, 98>> \in DOMAIN suffixes
    /\ tokens = <<<<97, 98>>, <<97, 98>>>>
    /\ ids = <<roots[<<97, 98>>], suffixes[<<97, 98>>]>>

\* ------------------------------------------------------------------------
\* C10  process_bpe: at each cursor position it emits the longest substring
\* starting there that is a BPE key and moves the cursor to its end, or, if
\* there is none, moves one character on and emits nothing; found_any is
\* true exactly when a fragment was emitted, and the caller emits <unknown>
\* exactly when it is false.
FragmentEmitted ==
    \E k \in 1..Len(tokens) : origin[k] >= pos /\ NotSpecial(tokens[k])

BpeEnds ==
    {j \in (bpe_i + 1)..Len(remainder) :
        Slice(remainder, bpe_i, j) \in DOMAIN bpe_tokens}

BpeStep ==
    pc = "process_bpe" =>
        /\ found_any <=> FragmentEmitted
        /\ IF bpe_i < Len(remainder)
           THEN IF BpeEnds # {}
                THEN \E j \in BpeEnds :
                        /\ \A m \in BpeEnds : m <= j
                        /\ Emitted(Slice(remainder, bpe_i, j),
                                   bpe_tokens[Slice(remainder, bpe_i, j)])
                        /\ bpe_i' = j
                        /\ pc' = pc
                ELSE tokens' = tokens /\ bpe_i' = bpe_i + 1 /\ pc' = pc
           ELSE /\ pc' # pc
                /\ IF FragmentEmitted
                   THEN tokens' = tokens
                   ELSE Emitted(TokUnknown, 4)

BpeEncoder == [][BpeStep]_vars

\* C10 witness: process_bpe returned true on a string it left a gap in, and
\* no <unknown> stands for the gap
BpeGapWitness ==
    /\ SpanDone
    /\ found_any
    /\ skipped
    /\ Len(SpanText) < Len(word)
    /\ \A k \in 1..Len(SpanTokens) : SpanTokens[k] # TokUnknown

====
